---- MODULE Spec2Model ----
(***************************************************************************)
(* Model of contract_tool.py: the prompt agents (Agent.call_api and the    *)
(* analyze/generate/check methods built on it), the worker thread          *)
(* ContractProcessingThread.run that sequences the five stages, and the    *)
(* part of ContractReviewApp that starts a run and receives its queued     *)
(* notifications.                                                          *)
(*                                                                         *)
(* Text is a sequence of tokens.  The module is ASCII, so the Chinese      *)
(* literals of the source are written in pinyin; each definition that      *)
(* stands for one names the source line of the literal in its comment.     *)
(***************************************************************************)
EXTENDS Naturals, Sequences, FiniteSets, TLC

VARIABLES
    contract_text,    \* ContractReviewApp.contract_text
    api_key,          \* ContractReviewApp.api_config.api_key (shared with the worker)
    api_config,       \* the other fields of that APIConfig object, shared as well
    process_button,   \* process_button.isEnabled()
    progress_bar,     \* progress_bar.value()
    app_results,      \* ContractReviewApp.results (absent until the first completion)
    msgbox,           \* title of the last QMessageBox the app showed
    pc,               \* position of ContractProcessingThread.run
    stage,            \* the stage run is at (0 before the first)
    locals,           \* run's clause_data, risk_data, compliance_data, report
    thr_text,         \* ContractProcessingThread.contract_text
    headers_key,      \* Agent.headers["Authorization"] of the worker's agents
    results,          \* ContractProcessingThread.results
    queue,            \* signals emitted by the worker, queued to the GUI thread
    calls,            \* the requests the current run has posted, in order
    outcomes,         \* what the network did with each of them
    emitted,          \* percents of the progress_updated signals of the run
    bar_history,      \* values set on the progress bar since the run started
    nComplete,        \* processing_complete emissions of the current run
    nError,           \* processing_error emissions of the current run
    inFlight,         \* threads started whose final signal is not yet handled
    started_with,     \* the contract text and the configuration of the window
                      \* as they were when the thread was started
    probe             \* input and result of one agent method applied on its own

vars == <<contract_text, api_key, api_config, started_with, process_button, progress_bar, app_results,
          msgbox, pc, stage, locals, thr_text, headers_key, results, queue, calls, outcomes,
          emitted, bar_history, nComplete, nError, inFlight, probe>>

appVars == <<contract_text, api_key, api_config, process_button, progress_bar,
             app_results, msgbox>>
threadVars == <<pc, stage, locals, thr_text, headers_key, results, calls,
                outcomes, emitted, nComplete, nError, started_with>>

---------------------------------------------------------------------------
(* Bounds *)

\* longest reply text (in tokens) given to an agent method applied on its own
MaxLen == 3

---------------------------------------------------------------------------
(* Text *)

WS == "ws"            \* a whitespace character
BT == "bt3"           \* three backticks, the code-fence marker
JSONWORD == "json"    \* the letters json
OBJ == "{obj}"        \* the text of a JSON object
ARR == "[arr]"        \* the text of a JSON array
DEEP == "{deep}"      \* the text of a JSON object nested about 995 deep
TXT == "prose"        \* text that is not JSON

Tokens == {WS, BT, JSONWORD, OBJ, ARR, DEEP, TXT}
JsonLiterals == {OBJ, ARR, DEEP}

RECURSIVE lstrip(_)
lstrip(s) == IF s # <<>> /\ Head(s) = WS THEN lstrip(Tail(s)) ELSE s

RECURSIVE rstrip(_)
rstrip(s) ==
    IF s # <<>> /\ s[Len(s)] = WS THEN rstrip(SubSeq(s, 1, Len(s) - 1)) ELSE s

\* str.strip()
strip(s) == rstrip(lstrip(s))

IsPrefix(p, s) == Len(p) <= Len(s) /\ SubSeq(s, 1, Len(p)) = p

\* str.replace(old, ""): one pass from the left, occurrences do not overlap
RECURSIVE replace(_, _)
replace(s, old) ==
    IF s = <<>> THEN <<>>
    ELSE IF IsPrefix(old, s)
         THEN replace(SubSeq(s, Len(old) + 1, Len(s)), old)
         ELSE <<Head(s)>> \o replace(Tail(s), old)

---------------------------------------------------------------------------
(* Python values and exceptions *)

\* A value is its type, its keys when it is a dict, whether it is nested too
\* deep for the JSON encoder, and its text: the characters of a str, the
\* JSON text a parsed value came from, the one value of a one-key dict.
Str(s) == [type |-> "str", keys |-> <<>>, nested |-> FALSE, text |-> s]
NoneVal == [type |-> "NoneType", keys |-> <<>>, nested |-> FALSE, text |-> <<"None">>]
Dict(ks, s, n) == [type |-> "dict", keys |-> ks, nested |-> n, text |-> s]
List(s) == [type |-> "list", keys |-> <<>>, nested |-> FALSE, text |-> s]

Return(v) == [raised |-> FALSE, value |-> v]
Raise(e) == [raised |-> TRUE, value |-> Str(<<e>>)]

\* the key of the dict literals at lines 96, 126 and 170
PARSE_ERROR_KEY == "jiexi_cuowu"
\* the text before {response} in those literals
PARSE_ERROR_PREFIX == <<"wufa_jiexi_JSON_yuanshi_xiangying:">>
\* the text before {response.status_code} at line 57
API_FAILED_PREFIX == <<"API_diaoyong_shibai_HTTP">>
\* the text before {str(e)} at line 61
API_EXCEPTION_PREFIX == <<"API_diaoyong_yichang:">>

\* str(v), as an f-string formats v
str(v) == v.text

\* json.loads: whitespace around one value is accepted, anything else raises
json_loads(s) ==
    LET core == strip(s) IN
    IF Len(core) = 1 /\ core[1] \in JsonLiterals
    THEN Return(CASE core[1] = OBJ -> Dict(<<"k1", "k2">>, <<OBJ>>, FALSE)
                  [] core[1] = DEEP -> Dict(<<"k1">>, <<DEEP>>, TRUE)
                  [] core[1] = ARR -> List(<<ARR>>))
    ELSE Raise("JSONDecodeError")

\* the text json.dumps(v, ensure_ascii=False, indent=2) writes for v
dumps_text(v) ==
    CASE v.type = "str" -> <<"q">> \o v.text \o <<"q">>
      [] v.type = "NoneType" -> <<"null">>
      [] v.type = "dict" /\ v.keys = <<PARSE_ERROR_KEY>> ->
            <<"{", PARSE_ERROR_KEY, ":", "q">> \o v.text \o <<"q", "}">>
      [] OTHER -> <<"indent2">> \o v.text

\* json.dumps(v, ensure_ascii=False, indent=2): with indent the pure-Python
\* encoder is used; it recurses once per level and raises RecursionError on
\* a value that json.loads could still read
json_dumps(v) ==
    IF v.nested THEN Raise("RecursionError") ELSE Return(Str(dumps_text(v)))

---------------------------------------------------------------------------
(* Agent.call_api *)

Statuses == {200, 201, 404, 500}
StatusText(n) ==
    CASE n = 200 -> "200" [] n = 201 -> "201" [] n = 404 -> "404" [] n = 500 -> "500"

\* What the network does with one request: requests.post raises (exc), or
\* returns a response with a status code, a text, and a JSON body that
\* holds choices[0].message.content (wellformed) or does not.
Outcome(e, st, wf, c, t) ==
    [text |-> t, exc |-> e, status |-> st, wellformed |-> wf, content |-> c]
TransportFailure == Outcome(TRUE, 200, FALSE, NoneVal, <<>>)
Completion(c) == Outcome(FALSE, 200, TRUE, c, <<>>)
HttpError(st, t) == Outcome(FALSE, st, FALSE, NoneVal, t)

\* Faulty variant of call_api_body: every status below 300 taken as success.
call_api_body_2xx(outcome) ==
    IF outcome.exc
    THEN Raise("ConnectionError")
    ELSE IF outcome.status < 300
         THEN IF outcome.wellformed
              THEN Return(outcome.content)
              ELSE Raise("KeyError")
         ELSE Return(Str(API_FAILED_PREFIX
                         \o <<StatusText(outcome.status), ",">> \o outcome.text))

\* lines 38-58: the body of the try statement
call_api_body(outcome) ==
    IF outcome.exc
    THEN Raise("ConnectionError")
    ELSE IF outcome.status = 200
         THEN IF outcome.wellformed
              THEN Return(outcome.content)
              ELSE Raise("KeyError")
         ELSE Return(Str(API_FAILED_PREFIX
                         \o <<StatusText(outcome.status), ",">> \o outcome.text))

\* Faulty variant of call_api: the except clause takes KeyError only, so
\* that an exception of requests.post leaves call_api.
call_api_keyerror(outcome) ==
    LET r == call_api_body(outcome) IN
    IF r.raised /\ r.value = Str(<<"KeyError">>)
    THEN Return(Str(API_EXCEPTION_PREFIX \o str(r.value)))
    ELSE r

\* Faulty variant of call_api: the try statement without its except clause.
call_api_unguarded(outcome) == call_api_body(outcome)

\* lines 36-61: Agent.call_api
call_api(outcome) ==
    LET r == call_api_body(outcome) IN
    IF r.raised THEN Return(Str(API_EXCEPTION_PREFIX \o str(r.value))) ELSE r

---------------------------------------------------------------------------
(* The five agents *)

CLAUSE == "ClauseExtractionAgent"
RISK == "RiskAnalysisAgent"
COMPLIANCE == "ComplianceAnalysisAgent"
REPORT == "ReportGenerationAgent"
ACCURACY == "AccuracyCheckAgent"
StructuredAgents == {CLAUSE, RISK, COMPLIANCE}

\* Faulty variant of parse_response: the try statement without its except
\* clause, so that a reply that does not parse raises.
parse_response_reraise(response) ==
    IF response.type # "str"
    THEN Raise("AttributeError")
    ELSE json_loads(replace(replace(strip(response.text), <<BT, JSONWORD>>), <<BT>>))

\* Faulty variant of parse_response: the three backticks are removed before
\* the marker that begins with them.
parse_response_swapped(response) ==
    IF response.type # "str"
    THEN Return(Dict(<<PARSE_ERROR_KEY>>, PARSE_ERROR_PREFIX \o str(response), FALSE))
    ELSE LET cleaned == replace(replace(strip(response.text), <<BT>>), <<BT, JSONWORD>>)
             parsed == json_loads(cleaned)
         IN  IF parsed.raised
             THEN Return(Dict(<<PARSE_ERROR_KEY>>, PARSE_ERROR_PREFIX \o cleaned, FALSE))
             ELSE parsed

\* lines 89-97, 120-127, 164-171: the try statement after call_api.
\* response.strip() raises on a value that is no str; the bare except then
\* formats the value it was given.  When json.loads raises, response is
\* already rebound to the stripped text.
parse_response(response) ==
    IF response.type # "str"
    THEN Return(Dict(<<PARSE_ERROR_KEY>>, PARSE_ERROR_PREFIX \o str(response), FALSE))
    ELSE LET cleaned == replace(replace(strip(response.text), <<BT, JSONWORD>>), <<BT>>)
             parsed == json_loads(cleaned)
         IN  IF parsed.raised
             THEN Return(Dict(<<PARSE_ERROR_KEY>>, PARSE_ERROR_PREFIX \o cleaned, FALSE))
             ELSE parsed

\* line 84
clause_prompt(text) == Return(Str(<<"tiqu_guanjian_tiaokuan:", text>>))

\* lines 115-116
risk_prompt(clause_data) ==
    LET clause_json == json_dumps(clause_data) IN
    IF clause_json.raised THEN clause_json
    ELSE Return(Str(<<"fengxian_lianghua_fenxi:">> \o clause_json.value.text))

\* lines 159-160
compliance_prompt(clause_data) ==
    LET clause_json == json_dumps(clause_data) IN
    IF clause_json.raised THEN clause_json
    ELSE Return(Str(<<"heguixing_fenxi:">> \o clause_json.value.text))

\* lines 192-199
report_prompt(clause_data, risk_data, compliance_data) ==
    IF clause_data.nested \/ risk_data.nested \/ compliance_data.nested
    THEN Raise("RecursionError")
    ELSE Return(Str(<<"shengcheng_shencha_baogao:", "{", "tiaokuan_xinxi", ":">>
                    \o dumps_text(clause_data) \o <<"fengxian_fenxi", ":">>
                    \o dumps_text(risk_data) \o <<"heguixing_fenxi", ":">>
                    \o dumps_text(compliance_data) \o <<"}">>))

\* lines 221-229
accuracy_prompt(original_contract, generated_report) ==
    Return(Str(<<"yuanshi_hetong:", original_contract, "shencha_baogao:">>
               \o str(generated_report) \o <<"zhunquexing_jiancha">>))

\* What follows the prompt in each agent method: the call, and for the
\* structured agents the parse.  An exception of call_api would propagate.
finish(agent, outcome) ==
    LET response == call_api(outcome) IN
    IF response.raised THEN response
    ELSE IF agent \in StructuredAgents THEN parse_response(response.value)
         ELSE response

\* ClauseExtractionAgent.analyze, RiskAnalysisAgent.analyze and
\* ComplianceAnalysisAgent.analyze, given their prompt's outcome
analyze(prompt, agent, outcome) ==
    IF prompt.raised THEN prompt ELSE finish(agent, outcome)

---------------------------------------------------------------------------
(* ContractProcessingThread *)

\* Faulty variant of StageAgent: compliance analysis before risk analysis.
StageAgent_swapped == <<CLAUSE, COMPLIANCE, RISK, REPORT, ACCURACY>>

\* the order of the stages in run, lines 257-285
StageAgent == <<CLAUSE, RISK, COMPLIANCE, REPORT, ACCURACY>>

\* Faulty variant of ResultKey: the compliance result is stored under the
\* key of the risk result.
ResultKey_typo ==
    <<"tiaokuan_tiqu", "fengxian_fenxi", "fengxian_fenxi", "shencha_baogao",
      "zhunquexing_jiancha">>

\* the keys run stores the results under, lines 260, 266, 272, 278, 284
ResultKey ==
    <<"tiaokuan_tiqu", "fengxian_fenxi", "heguixing_fenxi", "shencha_baogao",
      "zhunquexing_jiancha">>

\* Faulty variant of PercentBefore: 85 where line 282 has 91.
PercentBefore_typo == <<20, 40, 60, 80, 85>>

\* the percents emitted before and after each stage
PercentBefore == <<20, 40, 60, 80, 91>>
PercentAfter == <<35, 55, 75, 90, 100>>

Unset == Str(<<"unset">>)
NoLocals ==
    [clause_data |-> Unset, risk_data |-> Unset, compliance_data |-> Unset,
     report |-> Unset]

\* d[key] = val on a dict kept as its items in insertion order
DictSet(d, key, val) ==
    IF \E i \in 1..Len(d) : d[i].key = key
    THEN [i \in 1..Len(d) |-> IF d[i].key = key THEN [key |-> key, val |-> val] ELSE d[i]]
    ELSE Append(d, [key |-> key, val |-> val])

\* the signals of the thread, as they wait in the GUI thread's event queue
Progress(n) == [sig |-> "progress_updated", percent |-> n, payload |-> <<>>]
Complete(res) == [sig |-> "processing_complete", percent |-> 0, payload |-> res]
\* line 290
Error(e) ==
    [sig |-> "processing_error", percent |-> 0,
     payload |-> <<[key |-> "chuli_fasheng_cuowu:", val |-> e]>>]

\* Faulty variant of StageArgs: the accuracy check is handed the text the
\* window holds now.
StageArgs_live(k) ==
    CASE k = 1 -> <<Str(<<thr_text>>)>>
      [] k = 2 -> <<locals.clause_data>>
      [] k = 3 -> <<locals.clause_data>>
      [] k = 4 -> <<locals.clause_data, locals.risk_data, locals.compliance_data>>
      [] k = 5 -> <<Str(<<contract_text>>), locals.report>>

\* Faulty variant of StageArgs: compliance analysis is handed risk_data.
StageArgs_stale(k) ==
    CASE k = 1 -> <<Str(<<thr_text>>)>>
      [] k = 2 -> <<locals.clause_data>>
      [] k = 3 -> <<locals.risk_data>>
      [] k = 4 -> <<locals.clause_data, locals.risk_data, locals.compliance_data>>
      [] k = 5 -> <<Str(<<thr_text>>), locals.report>>

\* the arguments run passes to the agent method of stage k, lines 259, 265,
\* 271, 277 and 283
StageArgs(k) ==
    CASE k = 1 -> <<Str(<<thr_text>>)>>
      [] k = 2 -> <<locals.clause_data>>
      [] k = 3 -> <<locals.clause_data>>
      [] k = 4 -> <<locals.clause_data, locals.risk_data, locals.compliance_data>>
      [] k = 5 -> <<Str(<<thr_text>>), locals.report>>

\* the prompt the agent method of stage k builds from its arguments a
PromptOf(k, a) ==
    CASE k = 1 -> clause_prompt(a[1].text[1])
      [] k = 2 -> risk_prompt(a[1])
      [] k = 3 -> compliance_prompt(a[1])
      [] k = 4 -> report_prompt(a[1], a[2], a[3])
      [] k = 5 -> accuracy_prompt(a[1].text[1], a[2])

\* the prompt of stage k in run
StagePrompt(k) == PromptOf(k, StageArgs(k))

\* the local variable run binds the result of stage k to
BindLocal(k, v) ==
    CASE k = 1 -> [locals EXCEPT !.clause_data = v]
      [] k = 2 -> [locals EXCEPT !.risk_data = v]
      [] k = 3 -> [locals EXCEPT !.compliance_data = v]
      [] k = 4 -> [locals EXCEPT !.report = v]
      [] k = 5 -> locals

\* What the remote API may do with the request of a structured agent and
\* of a prose agent while the user only watches the run,
StructuredReplies ==
    {Completion(Str(<<OBJ>>)), Completion(Str(<<ARR>>)), Completion(Str(<<DEEP>>)),
     Completion(Str(<<TXT>>)), TransportFailure, HttpError(500, <<TXT>>)}
ProseReplies ==
    {Completion(Str(<<TXT>>)), Completion(NoneVal), TransportFailure,
     HttpError(500, <<TXT>>)}
RunOutcomes(k) ==
    IF StageAgent[k] \in StructuredAgents THEN StructuredReplies ELSE ProseReplies

\* and while the user goes on using the window
AppOutcomes(k) ==
    IF k = 1
    THEN {Completion(Str(<<OBJ>>)), Completion(Str(<<ARR>>)),
          Completion(Str(<<DEEP>>)), TransportFailure}
    ELSE IF StageAgent[k] \in StructuredAgents
         THEN {Completion(Str(<<BT, JSONWORD, OBJ, BT>>))}
         ELSE {Completion(Str(<<TXT>>))}

\* lines 247-255: the first signal, and the agents, whose headers take the
\* API key as it is now (line 33)
ThreadBegin ==
    /\ pc = "started"
    /\ queue' = Append(queue, Progress(10))
    /\ emitted' = Append(emitted, 10)
    /\ headers_key' = api_key
    /\ stage' = 1
    /\ pc' = "stage"
    /\ UNCHANGED <<appVars, started_with, bar_history, locals, thr_text, results, calls,
                   outcomes, nComplete, nError, inFlight, probe>>

\* Faulty variant of StageCall: processing_complete is emitted in a finally
\* clause, so also after the handler.
StageCall_finally(k) ==
    /\ pc = "stage"
    /\ stage = k
    /\ emitted' = Append(emitted, PercentBefore[k])
    /\ LET prompt == StagePrompt(k) IN
       IF prompt.raised
       THEN /\ queue' = queue \o <<Progress(PercentBefore[k]), Error(prompt.value),
                                   Complete(results)>>
            /\ nError' = nError + 1
            /\ nComplete' = nComplete + 1
            /\ pc' = "failed"
            /\ calls' = calls
       ELSE /\ queue' = Append(queue, Progress(PercentBefore[k]))
            /\ calls' = Append(calls, [agent |-> StageAgent[k],
                                       prompt |-> prompt.value.text,
                                       args |-> StageArgs(k),
                                       bearer |-> headers_key,
                                       url |-> <<api_config.api_base_url,
                                                 "/chat/completions">>,
                                       model |-> api_config.model_name,
                                       temperature |-> api_config.temperature,
                                       max_tokens |-> api_config.max_tokens])
            /\ pc' = "waiting"
            /\ nError' = nError
            /\ nComplete' = nComplete
    /\ UNCHANGED <<appVars, started_with, bar_history, stage, locals, thr_text, headers_key,
                   results, outcomes, inFlight, probe>>

\* Stage k up to the point where requests.post blocks: the signal, the
\* prompt, the request.  An exception of the prompt ends run in its handler
\* (lines 289-290).
StageCall(k) ==
    /\ pc = "stage"
    /\ stage = k
    /\ emitted' = Append(emitted, PercentBefore[k])
    /\ LET prompt == StagePrompt(k) IN
       IF prompt.raised
       THEN /\ queue' = queue \o <<Progress(PercentBefore[k]), Error(prompt.value)>>
            /\ nError' = nError + 1
            /\ pc' = "failed"
            /\ calls' = calls
       ELSE /\ queue' = Append(queue, Progress(PercentBefore[k]))
            /\ calls' = Append(calls, [agent |-> StageAgent[k],
                                       prompt |-> prompt.value.text,
                                       args |-> StageArgs(k),
                                       bearer |-> headers_key,
                                       url |-> <<api_config.api_base_url,
                                                 "/chat/completions">>,
                                       model |-> api_config.model_name,
                                       temperature |-> api_config.temperature,
                                       max_tokens |-> api_config.max_tokens])
            /\ pc' = "waiting"
            /\ nError' = nError
    /\ UNCHANGED <<appVars, started_with, bar_history, stage, locals, thr_text, headers_key,
                   results, outcomes, nComplete, inFlight, probe>>

\* Stage k from the return of requests.post: the rest of the agent method,
\* the result stored, the signal; after the last stage, line 287.
StageReturn(k, replies) ==
    /\ pc = "waiting"
    /\ stage = k
    /\ \E outcome \in replies :
        LET r == finish(StageAgent[k], outcome) IN
        /\ outcomes' = Append(outcomes, outcome)
        /\ IF r.raised
           THEN /\ queue' = Append(queue, Error(r.value))
                /\ nError' = nError + 1
                /\ pc' = "failed"
                /\ UNCHANGED <<stage, locals, results, emitted, nComplete>>
           ELSE /\ locals' = BindLocal(k, r.value)
                /\ results' = DictSet(results, ResultKey[k], r.value)
                /\ emitted' = Append(emitted, PercentAfter[k])
                /\ nError' = nError
                /\ IF k = 5
                   THEN /\ queue' = queue \o <<Progress(PercentAfter[k]), Complete(results')>>
                        /\ nComplete' = nComplete + 1
                        /\ pc' = "done"
                        /\ stage' = stage
                   ELSE /\ queue' = Append(queue, Progress(PercentAfter[k]))
                        /\ nComplete' = nComplete
                        /\ pc' = "stage"
                        /\ stage' = k + 1
    /\ UNCHANGED <<appVars, started_with, bar_history, thr_text, headers_key, calls,
                   inFlight, probe>>

---------------------------------------------------------------------------
(* ContractReviewApp *)

Texts == {"", "T1", "T2"}
Keys == {"", "K1", "K2"}

\* lines 829-833: the settings load_settings takes when none are stored
DefaultConfig ==
    [api_base_url |-> "https://api.deepseek.com/v1", model_name |-> "deepseek-chat",
     temperature |-> "0.2", max_tokens |-> 4000]
\* settings a user may save in their place (lines 563-586)
OtherConfig ==
    [api_base_url |-> "https://api.example.com/v1", model_name |-> "deepseek-reasoner",
     temperature |-> "0.7", max_tokens |-> 8000]
Configs == {DefaultConfig, OtherConfig}
\* before the first thread is started
NoStart == [api_key |-> "", text |-> "", config |-> DefaultConfig]
\* self.results before processing_finished first sets it
NoResults == <<>>

\* lines 522-547: the file is read into contract_text, or a message box
load_contract ==
    /\ \/ \E t \in Texts : contract_text' = t /\ msgbox' = msgbox
       \/ contract_text' = contract_text /\ msgbox' = "jiazai_cuowu"
    /\ UNCHANGED <<api_key, api_config, process_button, progress_bar, app_results,
                   threadVars, queue, bar_history, inFlight, probe>>

\* lines 608-618, with the key and the settings the dialog's fields hold.
\* The five assignments are taken as one step; the worker reading between
\* two of them would only add requests that mix old and new settings.
save_api_settings(settings) ==
    /\ \E k \in Keys : api_key' = k
    /\ \E c \in settings : api_config' = c
    /\ msgbox' = "shezhi_baocun"
    /\ UNCHANGED <<contract_text, process_button, progress_bar, app_results,
                   threadVars, queue, bar_history, inFlight, probe>>

\* Faulty variant of process_contract: the API key is not looked at.
process_contract_nokeycheck ==
    /\ process_button
    /\ IF contract_text = ""
       THEN /\ msgbox' = "hetong_weikong"
            /\ UNCHANGED <<process_button, progress_bar, threadVars,
                           bar_history, inFlight>>
       ELSE /\ process_button' = FALSE
            /\ progress_bar' = 0
            /\ bar_history' = <<0>>
            /\ thr_text' = contract_text
            /\ results' = <<>>
            /\ locals' = NoLocals
            /\ pc' = "started"
            /\ stage' = 0
            /\ calls' = <<>>
            /\ outcomes' = <<>>
            /\ emitted' = <<>>
            /\ nComplete' = 0
            /\ nError' = 0
            /\ inFlight' = inFlight + 1
            /\ started_with' = [api_key |-> api_key, text |-> contract_text,
                                  config |-> api_config]
            /\ UNCHANGED <<msgbox, headers_key>>
    /\ UNCHANGED <<contract_text, api_key, api_config, app_results, queue, probe>>

\* Faulty variant of process_contract: the button is left enabled.
process_contract_buttonleft ==
    /\ process_button
    /\ IF contract_text = ""
       THEN /\ msgbox' = "hetong_weikong"
            /\ UNCHANGED <<process_button, progress_bar, threadVars,
                           bar_history, inFlight>>
       ELSE IF api_key = ""
            THEN /\ msgbox' = "API_miyao_weishezhi"
                 /\ UNCHANGED <<process_button, progress_bar, threadVars,
                                bar_history, inFlight>>
            ELSE /\ process_button' = process_button
                 /\ progress_bar' = 0
                 /\ bar_history' = <<0>>
                 /\ thr_text' = contract_text
                 /\ results' = <<>>
                 /\ locals' = NoLocals
                 /\ pc' = "started"
                 /\ stage' = 0
                 /\ calls' = <<>>
                 /\ outcomes' = <<>>
                 /\ emitted' = <<>>
                 /\ nComplete' = 0
                 /\ nError' = 0
                 /\ inFlight' = inFlight + 1
            /\ started_with' = [api_key |-> api_key, text |-> contract_text,
                                  config |-> api_config]
                 /\ UNCHANGED <<msgbox, headers_key>>
    /\ UNCHANGED <<contract_text, api_key, api_config, app_results, queue, probe>>

\* lines 620-641, run by a click on the enabled button (line 440)
process_contract ==
    /\ process_button
    /\ IF contract_text = ""
       THEN /\ msgbox' = "hetong_weikong"
            /\ UNCHANGED <<process_button, progress_bar, threadVars,
                           bar_history, inFlight>>
       ELSE IF api_key = ""
            THEN /\ msgbox' = "API_miyao_weishezhi"
                 /\ UNCHANGED <<process_button, progress_bar, threadVars,
                                bar_history, inFlight>>
            ELSE /\ process_button' = FALSE
                 /\ progress_bar' = 0
                 /\ bar_history' = <<0>>
                 /\ thr_text' = contract_text
                 /\ results' = <<>>
                 /\ locals' = NoLocals
                 /\ pc' = "started"
                 /\ stage' = 0
                 /\ calls' = <<>>
                 /\ outcomes' = <<>>
                 /\ emitted' = <<>>
                 /\ nComplete' = 0
                 /\ nError' = 0
                 /\ inFlight' = inFlight + 1
            /\ started_with' = [api_key |-> api_key, text |-> contract_text,
                                  config |-> api_config]
                 /\ UNCHANGED <<msgbox, headers_key>>
    /\ UNCHANGED <<contract_text, api_key, api_config, app_results, queue, probe>>

\* lines 643-645
update_progress ==
    /\ queue # <<>>
    /\ Head(queue).sig = "progress_updated"
    /\ progress_bar' = Head(queue).percent
    /\ bar_history' = Append(bar_history, Head(queue).percent)
    /\ queue' = Tail(queue)
    /\ UNCHANGED <<contract_text, api_key, api_config, process_button, app_results, msgbox,
                   threadVars, inFlight, probe>>

\* lines 676-730: the tab updates raise on a clause result that has no keys()
\* and on a value QTextEdit.setText does not take
TabsRaise(res) ==
    \/ res[1].val.type # "dict"
    \/ res[2].val.type \notin {"dict", "list", "str"}
    \/ res[2].val.nested
    \/ res[3].val.type \notin {"dict", "list", "str"}
    \/ res[3].val.nested
    \/ res[4].val.type # "str"
    \/ res[5].val.type # "str"

\* lines 647-666; an exception of a tab update leaves the slot there
processing_finished ==
    /\ queue # <<>>
    /\ Head(queue).sig = "processing_complete"
    /\ app_results' = Head(queue).payload
    /\ queue' = Tail(queue)
    /\ inFlight' = inFlight - 1
    /\ IF TabsRaise(Head(queue).payload)
       THEN UNCHANGED <<process_button, msgbox>>
       ELSE /\ process_button' = TRUE
            /\ msgbox' = "chuli_wancheng"
    /\ UNCHANGED <<contract_text, api_key, api_config, progress_bar, threadVars,
                   bar_history, probe>>

\* lines 668-674
processing_error ==
    /\ queue # <<>>
    /\ Head(queue).sig = "processing_error"
    /\ msgbox' = "chuli_cuowu"
    /\ process_button' = TRUE
    /\ queue' = Tail(queue)
    /\ inFlight' = inFlight - 1
    /\ UNCHANGED <<contract_text, api_key, api_config, progress_bar, app_results,
                   threadVars, bar_history, probe>>

---------------------------------------------------------------------------
(* The application: one window, its worker thread, the remote API *)

NoProbe ==
    [method |-> "none", input |-> NoneVal, given |-> TransportFailure,
     result |-> Return(NoneVal)]

\* lines 295-304 and 827-833: the window after construction; the API key is
\* the one the settings store holds
Init ==
    /\ contract_text = ""
    /\ api_key \in Keys
    /\ api_config = DefaultConfig
    /\ started_with = NoStart
    /\ process_button = TRUE
    /\ progress_bar = 0
    /\ app_results = NoResults
    /\ msgbox = "none"
    /\ pc = "none"
    /\ stage = 0
    /\ locals = NoLocals
    /\ thr_text = ""
    /\ headers_key = ""
    /\ results = <<>>
    /\ queue = <<>>
    /\ calls = <<>>
    /\ outcomes = <<>>
    /\ emitted = <<>>
    /\ bar_history = <<0>>
    /\ nComplete = 0
    /\ nError = 0
    /\ inFlight = 0
    /\ probe = NoProbe

Next ==
    \/ load_contract
    \/ save_api_settings({DefaultConfig})
    \/ process_contract
    \/ update_progress
    \/ processing_finished
    \/ processing_error
    \/ ThreadBegin
    \/ \E k \in 1..5 : StageCall(k)
    \/ \E k \in 1..5 : StageReturn(k, AppOutcomes(k))

Spec == Init /\ [][Next]_vars

\* The window as lines 630-641 leave it when the button is first clicked
\* with a contract loaded and a key set: the thread is started.
InitRun ==
    /\ contract_text = "T1"
    /\ api_key = "K1"
    /\ api_config = DefaultConfig
    /\ started_with = [api_key |-> "K1", text |-> "T1", config |-> DefaultConfig]
    /\ process_button = FALSE
    /\ progress_bar = 0
    /\ app_results = NoResults
    /\ msgbox = "none"
    /\ pc = "started"
    /\ stage = 0
    /\ locals = NoLocals
    /\ thr_text = "T1"
    /\ headers_key = ""
    /\ results = <<>>
    /\ queue = <<>>
    /\ calls = <<>>
    /\ outcomes = <<>>
    /\ emitted = <<>>
    /\ bar_history = <<0>>
    /\ nComplete = 0
    /\ nError = 0
    /\ inFlight = 1
    /\ probe = NoProbe

\* one run, the user only watching it
NextRun ==
    \/ update_progress
    \/ processing_finished
    \/ processing_error
    \/ ThreadBegin
    \/ \E k \in 1..5 : StageCall(k)
    \/ \E k \in 1..5 : StageReturn(k, RunOutcomes(k))

SpecRun == InitRun /\ [][NextRun]_vars

\* The worker thread is scheduled, every network call returns, and every
\* queued signal is delivered to its slot.
Fairness ==
    /\ WF_vars(ThreadBegin \/ \E k \in 1..5 : StageCall(k))
    /\ WF_vars(\E k \in 1..5 : StageReturn(k, AppOutcomes(k)))
    /\ WF_vars(update_progress \/ processing_finished \/ processing_error)

\* one run, the user only watching it, with the replies of AppOutcomes
NextLive ==
    \/ update_progress
    \/ processing_finished
    \/ processing_error
    \/ ThreadBegin
    \/ \E k \in 1..5 : StageCall(k)
    \/ \E k \in 1..5 : StageReturn(k, AppOutcomes(k))

SpecLive == InitRun /\ [][NextLive]_vars /\ Fairness

\* one run, the user saving API settings while it is in flight
NextConfig ==
    \/ save_api_settings(Configs)
    \/ update_progress
    \/ processing_finished
    \/ processing_error
    \/ ThreadBegin
    \/ \E k \in 1..5 : StageCall(k)
    \/ \E k \in 1..5 : StageReturn(k, AppOutcomes(k))

SpecConfig == InitRun /\ [][NextConfig]_vars

---------------------------------------------------------------------------
(* One agent method applied on its own to one reply of the remote API *)

TextsUpTo(n) == UNION {[1..m -> Tokens] : m \in 0..n}

ProbeOutcomes ==
    {TransportFailure, Completion(NoneVal), Outcome(FALSE, 200, FALSE, NoneVal, <<>>)}
    \cup {Completion(Str(s)) : s \in TextsUpTo(MaxLen)}
    \cup {Outcome(FALSE, st, wf, Str(<<OBJ>>), t) :
            st \in Statuses \ {200}, wf \in BOOLEAN, t \in {<<>>, <<OBJ>>, <<TXT>>}}

\* the clause data a structured agent may be given
ProbeInputs ==
    {Dict(<<"k1", "k2">>, <<OBJ>>, FALSE), Dict(<<"k1">>, <<DEEP>>, TRUE),
     Dict(<<PARSE_ERROR_KEY>>, PARSE_ERROR_PREFIX \o <<TXT>>, FALSE)}

InitAgent ==
    /\ contract_text = "T1"
    /\ api_key = "K1"
    /\ api_config = DefaultConfig
    /\ started_with = NoStart
    /\ process_button = TRUE
    /\ progress_bar = 0
    /\ app_results = NoResults
    /\ msgbox = "none"
    /\ pc = "none"
    /\ stage = 0
    /\ locals = NoLocals
    /\ thr_text = ""
    /\ headers_key = ""
    /\ results = <<>>
    /\ queue = <<>>
    /\ calls = <<>>
    /\ outcomes = <<>>
    /\ emitted = <<>>
    /\ bar_history = <<0>>
    /\ nComplete = 0
    /\ nError = 0
    /\ inFlight = 0
    /\ \E o \in ProbeOutcomes, v \in ProbeInputs :
          probe = [method |-> "none", input |-> v, given |-> o,
                   result |-> Return(NoneVal)]

\* Agent.call_api
ApplyCallApi ==
    /\ probe.method = "none"
    /\ probe' = [probe EXCEPT !.method = "call_api", !.result = call_api(probe.given)]
    /\ UNCHANGED <<appVars, threadVars, queue, bar_history, inFlight>>

\* ClauseExtractionAgent.analyze(contract_text)
ApplyClauseAnalyze ==
    /\ probe.method = "none"
    /\ probe' = [probe EXCEPT !.method = CLAUSE,
                   !.result = analyze(clause_prompt(contract_text), CLAUSE, probe.given)]
    /\ UNCHANGED <<appVars, threadVars, queue, bar_history, inFlight>>

\* RiskAnalysisAgent.analyze(clause_data)
ApplyRiskAnalyze ==
    /\ probe.method = "none"
    /\ probe' = [probe EXCEPT !.method = RISK,
                   !.result = analyze(risk_prompt(probe.input), RISK, probe.given)]
    /\ UNCHANGED <<appVars, threadVars, queue, bar_history, inFlight>>

\* ComplianceAnalysisAgent.analyze(clause_data)
ApplyComplianceAnalyze ==
    /\ probe.method = "none"
    /\ probe' = [probe EXCEPT !.method = COMPLIANCE,
                   !.result = analyze(compliance_prompt(probe.input), COMPLIANCE,
                                      probe.given)]
    /\ UNCHANGED <<appVars, threadVars, queue, bar_history, inFlight>>

NextAgent ==
    \/ ApplyCallApi
    \/ ApplyClauseAnalyze
    \/ ApplyRiskAnalyze
    \/ ApplyComplianceAnalyze

SpecAgent == InitAgent /\ [][NextAgent]_vars

---------------------------------------------------------------------------
(* Properties *)

\* s occurs in t as a run of consecutive tokens
Contains(t, s) ==
    \E i \in 0..(Len(t) - Len(s)) : \A j \in 1..Len(s) : t[i + j] = s[j]

\* v is a dict with exactly one key, the sentinel
IsParseErrorRecord(v) == v.type = "dict" /\ v.keys = <<PARSE_ERROR_KEY>>

\* v is one of the two error strings of call_api
IsApiErrorString(v) ==
    /\ v.type = "str"
    /\ \/ IsPrefix(API_EXCEPTION_PREFIX, v.text)
       \/ IsPrefix(API_FAILED_PREFIX, v.text)

Finished == pc \in {"done", "failed"}

\* the network call of the second stage, risk analysis, failed in transport
RiskTransportFailure == Len(outcomes) >= 2 /\ outcomes[2].exc

Rejecting == contract_text = "" \/ api_key = ""

\* C2: while the contract text or the API key is empty, no step starts a
\* worker thread or disables the button, and with no run in flight no step
\* changes the thread, posts a request or emits a signal: a click on the
\* button is turned away before the first stage.
C2_RejectedBeforeFirstStage ==
    [][Rejecting =>
          /\ inFlight' <= inFlight
          /\ process_button => process_button'
          /\ inFlight = 0 =>
                UNCHANGED <<pc, stage, thr_text, results, calls, outcomes, queue>>
      ]_vars

C2_Witness ==
    /\ msgbox = "API_miyao_weishezhi"
    /\ contract_text # ""
    /\ api_key = ""
    /\ process_button
    /\ pc = "none"
    /\ calls = <<>>

\* C3: at most one started thread has not yet had its processing_complete or
\* processing_error handled by the window.
C3_AtMostOneRunInFlight ==
    /\ inFlight <= 1
    /\ pc \in {"started", "stage", "waiting"} => inFlight = 1 /\ ~process_button

C3_Witness ==
    /\ app_results # NoResults
    /\ inFlight = 1
    /\ pc = "waiting"
    /\ ~process_button

ExpectedAgents == <<CLAUSE, RISK, COMPLIANCE, REPORT, ACCURACY>>

\* C4: the requests of a run are a prefix of clause extraction, risk
\* analysis, compliance analysis, report generation, accuracy check, one
\* request per stage; a request is posted only when the results of all
\* earlier stages are stored; a run that completes has posted all five.
C4_StagesInFixedOrder ==
    /\ Len(calls) <= 5
    /\ \A i \in 1..Len(calls) : calls[i].agent = ExpectedAgents[i]
    /\ Len(outcomes) <= Len(calls)
    /\ Len(calls) <= Len(outcomes) + 1
    /\ pc # "failed" => Len(results) = Len(outcomes)
    /\ Len(calls) <= Len(results) + 1
    /\ nComplete = 1 => Len(calls) = 5 /\ Len(results) = 5

C4_Witness ==
    /\ nComplete = 1
    /\ Len(calls) = 5
    /\ \E i \in 1..5 : outcomes[i].exc

NonDecreasing(s) == \A i \in 1..(Len(s) - 1) : s[i] <= s[i + 1]

\* C5: the percents a run emits never decrease, nor do the values set on the
\* progress bar from its reset to 0 at the start of the run; the completion
\* is emitted after the percent 100 and handled when the bar shows 100.
C5_ProgressNonDecreasing ==
    /\ NonDecreasing(emitted)
    /\ NonDecreasing(bar_history)
    /\ bar_history[1] = 0
    /\ nComplete = 1 => emitted[Len(emitted)] = 100
    /\ \A i \in 1..Len(queue) :
          queue[i].sig = "processing_complete" =>
              IF i = 1 THEN progress_bar = 100 ELSE queue[i - 1] = Progress(100)

C5_Witness ==
    /\ nComplete = 1
    /\ Len(emitted) = 11
    /\ Len(bar_history) = 12
    /\ progress_bar = 100
    /\ app_results # NoResults

C6_OneTerminal ==
    /\ nComplete + nError <= 1
    /\ pc = "failed" => nError = 1
    /\ nError = 1 =>
          /\ pc = "failed"
          /\ nComplete = 0
          /\ app_results = NoResults
          /\ \A i \in 1..Len(queue) : queue[i].sig # "processing_complete"

\* C6: a run emits at most one of processing_complete and processing_error;
\* a run that failed has emitted processing_error exactly once and no
\* results, so the window has none; after the failure the thread posts no
\* further request, stores no further result and emits nothing more.
C6_SingleTerminalNotification ==
    /\ []C6_OneTerminal
    /\ [][pc = "failed" =>
             /\ pc' = "failed"
             /\ UNCHANGED <<calls, outcomes, results, emitted, nError, nComplete,
                            app_results>>
         ]_vars

C6_Witness ==
    /\ pc = "failed"
    /\ nError = 1
    /\ Len(results) = 3
    /\ queue = <<>>
    /\ msgbox = "chuli_cuowu"
    /\ app_results = NoResults

ExpectedKeys ==
    <<"tiaokuan_tiqu", "fengxian_fenxi", "heguixing_fenxi", "shencha_baogao",
      "zhunquexing_jiancha">>

\* res has the five keys in order, each bound to what the stage of that
\* position returned for the reply it got in this run
FullResult(res) ==
    /\ Len(res) = 5
    /\ \A i \in 1..5 :
          /\ res[i].key = ExpectedKeys[i]
          /\ res[i].val = finish(ExpectedAgents[i], outcomes[i]).value

\* C7: the results of a thread are empty when it starts and only ever hold a
\* prefix of the five keys; the mapping emitted with processing_complete,
\* and so the one the window receives, has exactly the five keys in order,
\* each bound to the value its stage returned in this run.
C7_FiveKeysInOrder ==
    /\ pc = "started" => results = <<>>
    /\ Len(results) <= 5
    /\ \A i \in 1..Len(results) : results[i].key = ExpectedKeys[i]
    /\ nComplete = 1 => FullResult(results)
    /\ \A i \in 1..Len(queue) :
          queue[i].sig = "processing_complete" => FullResult(queue[i].payload)
    /\ app_results # NoResults => FullResult(app_results)

C7_Witness ==
    /\ app_results # NoResults
    /\ Len(app_results) = 5
    /\ app_results[3].val # app_results[2].val
    /\ queue = <<>>

\* s without the whitespace around it
Trimmed(s) ==
    LET inked == {i \in 1..Len(s) : s[i] # WS} IN
    IF inked = {} THEN <<>>
    ELSE SubSeq(s, CHOOSE a \in inked : \A i \in inked : a <= i,
                   CHOOSE b \in inked : \A i \in inked : i <= b)

\* s without its code-fence markers: every three backticks, and the word
\* json right after three backticks
Unfenced(s) ==
    LET marker(i) == s[i] = BT \/ (s[i] = JSONWORD /\ i > 1 /\ s[i - 1] = BT)
        upTo[n \in 0..Len(s)] ==
            IF n = 0 THEN <<>>
            ELSE IF marker(n) THEN upTo[n - 1] ELSE Append(upTo[n - 1], s[n])
    IN  upTo[Len(s)]

\* s is one JSON value, possibly inside whitespace
IsJsonText(s) == \E lit \in {OBJ, ARR, DEEP} : Trimmed(s) = <<lit>>

TransportOrHttpError(o) == o.exc \/ o.status # 200

\* the reply to stage i was a transport or HTTP error, or did not parse
SoftErrorAt(i) ==
    \/ TransportOrHttpError(outcomes[i])
    \/ /\ ExpectedAgents[i] \in StructuredAgents
       /\ ~(/\ outcomes[i].content.type = "str"
            /\ IsJsonText(Unfenced(Trimmed(outcomes[i].content.text))))

\* v is the error marker stage i stores for the reply o
IsMarker(v, i, o) ==
    IF ExpectedAgents[i] \in StructuredAgents
    THEN /\ IsParseErrorRecord(v)
         /\ TransportOrHttpError(o) =>
               \/ Contains(v.text, API_EXCEPTION_PREFIX)
               \/ Contains(v.text, API_FAILED_PREFIX)
    ELSE IsApiErrorString(v)

\* the stages whose prompt is built from the result of stage i
Dependents(i) ==
    CASE i = 1 -> {2, 3, 4} [] i = 2 -> {4} [] i = 3 -> {4} [] i = 4 -> {5}
      [] OTHER -> {}

AnalyzeReturnedFromCall ==
    /\ probe.method \in StructuredAgents
    /\ probe.method = CLAUSE \/ ~probe.input.nested

\* the value the underlying call returned to the agent method applied
Returned == call_api(probe.given).value

Shown(v) == IF v.type = "str" THEN Unfenced(Trimmed(v.text)) ELSE v.text

C10_Original_Every2xxReturnsContent ==
    probe.method = "call_api" =>
        /\ ~probe.result.raised
        /\ (probe.given.exc \/ probe.given.status \notin 200..299) =>
              IsApiErrorString(probe.result.value)
        /\ (/\ ~probe.given.exc
            /\ probe.given.status \in 200..299
            /\ probe.given.wellformed) =>
              probe.result.value = probe.given.content

\* C10 as amended: call_api does not raise.  After a transport failure, and
\* after a response with status 200 whose body holds no first completion, it
\* returns the exception string; after a response with any status other than
\* 200 the failure string with the status and the response text in it; and
\* after a response with status 200 and a first completion, its content.
C10_Only200ReturnsContent ==
    probe.method = "call_api" =>
        /\ ~probe.result.raised
        /\ (probe.given.exc \/ (probe.given.status = 200 /\ ~probe.given.wellformed)) =>
              /\ probe.result.value.type = "str"
              /\ IsPrefix(API_EXCEPTION_PREFIX, probe.result.value.text)
        /\ (~probe.given.exc /\ probe.given.status # 200) =>
              /\ probe.result.value.type = "str"
              /\ IsPrefix(API_FAILED_PREFIX, probe.result.value.text)
              /\ Contains(probe.result.value.text, <<StatusText(probe.given.status)>>)
              /\ Contains(probe.result.value.text, probe.given.text)
        /\ (~probe.given.exc /\ probe.given.status = 200 /\ probe.given.wellformed) =>
              probe.result.value = probe.given.content

C10_Witness ==
    /\ probe.method = "call_api"
    /\ ~probe.given.exc
    /\ probe.given.status = 201
    /\ probe.given.wellformed
    /\ probe.given.text = <<TXT>>
    /\ IsApiErrorString(probe.result.value)

\* the stages whose results stage k is declared to take
Upstream(k) ==
    CASE k = 1 -> <<>> [] k = 2 -> <<1>> [] k = 3 -> <<1>> [] k = 4 -> <<1, 2, 3>>
      [] k = 5 -> <<4>>

\* the stages that take the original contract text
TakesText(k) == k \in {1, 5}

\* the value the result mapping holds under key
StoredUnder(key) ==
    results[CHOOSE i \in 1..Len(results) : results[i].key = key].val

HasKey(key) == \E i \in 1..Len(results) : results[i].key = key

\* what stage k is to receive: the text of the run where it takes it, then
\* the values stored under the keys of its upstream stages
DeclaredInputs(k) ==
    (IF TakesText(k) THEN <<Str(<<thr_text>>)>> ELSE <<>>)
    \o [i \in 1..Len(Upstream(k)) |-> StoredUnder(ExpectedKeys[Upstream(k)[i]])]

UpstreamStored(k) ==
    \A i \in 1..Len(Upstream(k)) : HasKey(ExpectedKeys[Upstream(k)[i]])

LocalOf(k) ==
    CASE k = 1 -> locals.clause_data [] k = 2 -> locals.risk_data
      [] k = 3 -> locals.compliance_data [] k = 4 -> locals.report

\* C11: the arguments of every agent method called, and of the one about to
\* be called, are the text of the run (clause extraction, accuracy check)
\* and the values stored in the result mapping under the keys of the
\* declared upstream stages: the clause result for risk and for compliance
\* analysis, the clause, risk and compliance results for the report, the
\* report for the accuracy check.  While stage k is being invoked the
\* mapping holds the results of the stages before k only, and run's
\* variables for the results of k and of the later stages are not bound.
C11_StagesReceiveUpstreamResults ==
    /\ \A i \in 1..Len(calls) :
          /\ calls[i].agent = ExpectedAgents[i]
          /\ UpstreamStored(i)
          /\ calls[i].args = DeclaredInputs(i)
    /\ pc \in {"stage", "waiting"} =>
          /\ UpstreamStored(stage)
          /\ StageArgs(stage) = DeclaredInputs(stage)
          /\ Len(results) = stage - 1
          /\ \A j \in stage..4 : LocalOf(j) = Unset

C11_Witness ==
    /\ pc = "done"
    /\ Len(calls) = 5
    /\ calls[3].args = <<results[1].val>>
    /\ calls[4].args = <<results[1].val, results[2].val, results[3].val>>
    /\ calls[5].args = <<Str(<<thr_text>>), results[4].val>>
    /\ results[1].val.type = "dict" /\ ~IsParseErrorRecord(results[1].val)
    /\ IsParseErrorRecord(results[2].val)
    /\ results[3].val.type = "list"
    /\ results[4].val.type = "str"

\* C12 as claimed: every request of a run carries the API key, the endpoint
\* URL, the model, the temperature and the max-token value that were in
\* effect when the run was started, whatever settings are saved meanwhile.
C12_ConfigImmutablePerRun ==
    \A i \in 1..Len(calls) :
        /\ calls[i].bearer = started_with.api_key
        /\ calls[i].url = <<started_with.config.api_base_url, "/chat/completions">>
        /\ calls[i].model = started_with.config.model_name
        /\ calls[i].temperature = started_with.config.temperature
        /\ calls[i].max_tokens = started_with.config.max_tokens

\* the values the agent method of stage k can return in a run
ReturnValues(k) ==
    {finish(StageAgent[k], o).value :
        o \in {x \in RunOutcomes(k) : ~finish(StageAgent[k], x).raised}}

\* the clause results with which a run gets past risk analysis
PassedOn == {c \in ReturnValues(1) : ~PromptOf(2, <<c>>).raised}

\* the arguments the agent method of stage k can be called with in a run
Invocable(k) ==
    CASE k = 1 -> {<<Str(<<t>>)>> : t \in Texts \ {""}}
      [] k = 2 -> {<<c>> : c \in ReturnValues(1)}
      [] k = 3 -> {<<c>> : c \in PassedOn}
      [] k = 4 -> {<<c, r, m>> : c \in PassedOn, r \in ReturnValues(2),
                                 m \in ReturnValues(3)}
      [] k = 5 -> {<<Str(<<t>>), r>> : t \in Texts \ {""}, r \in ReturnValues(4)}

\* there are arguments stage k can be called with and an outcome of its
\* network call with which its agent method raises
CanFault(k) ==
    \E a \in Invocable(k), o \in RunOutcomes(k) :
        analyze(PromptOf(k, a), StageAgent[k], o).raised

\* C13 as claimed: whichever of the five stages a run is in, there is an
\* execution in which a fault of that stage's agent call takes the run to
\* Failed from that stage: arguments the stage can be called with and an
\* outcome of its network call with which the agent method raises.
C13_Original_FailedFromEveryStage ==
    \A k \in 1..5 : (pc \in {"stage", "waiting"} /\ stage = k) => CanFault(k)

\* C13 as amended: Failed is entered from risk analysis and from report
\* generation, and from no other stage.  Every agent method is called with
\* arguments of Invocable; with them the agent methods of risk analysis
\* and of report generation can raise, those of clause extraction, of
\* compliance analysis and of the accuracy check cannot, whatever the
\* network call does.  A run that failed did so in stage 2 or 4 while the
\* prompt was built, before the request of that stage, on a stored result
\* nested too deep for json.dumps, and emitted processing_error once.
C13_FailedOnlyFromRiskOrReport ==
    /\ \A i \in 1..Len(calls) : calls[i].args \in Invocable(i)
    /\ pc \in {"stage", "waiting"} => StageArgs(stage) \in Invocable(stage)
    /\ CanFault(2) /\ CanFault(4)
    /\ ~CanFault(1) /\ ~CanFault(3) /\ ~CanFault(5)
    /\ pc = "failed" =>
          /\ stage \in {2, 4}
          /\ Len(calls) = stage - 1
          /\ Len(results) = stage - 1
          /\ \E i \in 1..Len(results) : results[i].val.nested
          /\ nError = 1
    /\ nError = 1 => pc = "failed"

\* a run that failed in report generation on a risk result nested too deep
C13_Witness ==
    /\ pc = "failed"
    /\ stage = 4
    /\ ~results[1].val.nested
    /\ results[2].val.nested
    /\ Len(calls) = 3
    /\ msgbox = "chuli_cuowu"
    /\ process_button

\* C14: a run that was started has its processing_complete or its
\* processing_error handled by the window in the end, and the button that
\* process_contract disabled is enabled again in the end.
C14_RunNotifiedAndButtonReenabled ==
    /\ (inFlight = 1) ~> (inFlight = 0)
    /\ (~process_button) ~> process_button

\* C15: the text a thread works on is the one the window held when the
\* thread was started, whatever is loaded into the window afterwards: the
\* requests of clause extraction and of the accuracy check of a run are
\* both called with that text and carry it in their prompts.
C15_TextCapturedAtRunStart ==
    /\ pc # "none" => thr_text = started_with.text /\ thr_text # ""
    /\ \A i \in 1..Len(calls) :
          calls[i].agent \in {CLAUSE, ACCURACY} =>
              /\ calls[i].args[1] = Str(<<started_with.text>>)
              /\ Contains(calls[i].prompt, <<started_with.text>>)

\* another contract was loaded before the request of the accuracy check
C15_Witness ==
    /\ pc = "waiting"
    /\ stage = 5
    /\ contract_text = "T2"
    /\ started_with.text = "T1"
    /\ calls[1].args[1] = Str(<<"T1">>)
    /\ calls[5].args[1] = Str(<<"T1">>)
    /\ ~Contains(calls[5].prompt, <<"T2">>)
====
